---- MODULE Spec2Model ----
(***************************************************************************)
(* mind_transfer_hook: the Token-2022 transfer hook of the MIND mint.      *)
(*                                                                         *)
(* State: the five mint-scoped records (Policy, Unlock, Exempt,            *)
(* AllowedProgram, PoolVault), the cluster clock, and the evaluation in    *)
(* flight.  Operations: the five setters, the hook's `handler` (evaluate)  *)
(* and the resolver `prev_program_id` over the Instructions sysvar.        *)
(***************************************************************************)
EXTENDS Integers, Sequences, FiniteSets, TLC

\* ---------------------------------------------------------------- bounds
MaxTime == 1
MaxLogLen == 2
MaxAmount == 1

\* ------------------------------------------------------------ identities
\* Pubkey::default() is the all-zero key, which is also the System Program.
DefaultPubkey == "11111111"
Token2022 == "token2022"
Amm == "amm"
ProgramIds == {DefaultPubkey, Token2022, Amm}
TokenAccounts == {"vault", "userA", "userB"}
ExemptAccounts == {"exemptA", "exemptB"}
\* u8 role masks: zero, a low bit, the high bit
RoleMasks == {0, 1, 128}
Times == 0..MaxTime
Amounts == 0..MaxAmount

\* Option<Pubkey>
None == <<>>
Some(x) == <<x>>

\* Result<()> of the hook
Allow == "Ok"
Paused == "Paused"
SellsDisabled == "SellsDisabled"
ProgramNotAllowed == "ProgramNotAllowed"
Verdicts == {Allow, Paused, SellsDisabled, ProgramNotAllowed}

VARIABLES policy, unlock, exempt, allowed_program, pool_vault,
          clock, pc, call, written, ix_ai, caller

records == <<policy, unlock, exempt, allowed_program, pool_vault>>
vars == <<policy, unlock, exempt, allowed_program, pool_vault,
          clock, pc, call, written, ix_ai, caller>>

\* ------------------------------------------------- Instructions sysvar
\* An account handed to the resolver: whether its key is the Instructions
\* sysvar id, the current-index field, and the serialized instructions
\* (instruction number k, counted from 0, is instructions[k+1]).
InstructionLogs(minLen) == UNION {[1..n -> ProgramIds] : n \in minLen..MaxLogLen}

\* What the runtime hands the hook: the sysvar itself, with the running
\* top-level instruction inside the transaction.
SysvarAccounts ==
    {a \in [is_sysvar : {TRUE}, current_index : 0..(MaxLogLen - 1),
            instructions : InstructionLogs(1)] :
        a.current_index < Len(a.instructions)}

AnyAccounts ==
    [is_sysvar : BOOLEAN, current_index : 0..(MaxLogLen + 1),
     instructions : InstructionLogs(0)]

load_current_index_checked(ai) ==
    IF ai.is_sysvar THEN [ok |-> TRUE, v |-> ai.current_index]
                    ELSE [ok |-> FALSE, v |-> 0]

load_instruction_at_checked(index, ai) ==
    IF ai.is_sysvar /\ index < Len(ai.instructions)
    THEN [ok |-> TRUE, program_id |-> ai.instructions[index + 1]]
    ELSE [ok |-> FALSE, program_id |-> DefaultPubkey]

prev_program_id_SameIndex(ai) ==
    LET idx == load_current_index_checked(ai) IN
    IF ~idx.ok THEN None
    ELSE IF idx.v = 0 THEN None
    ELSE LET prev == load_instruction_at_checked(idx.v, ai) IN
         IF prev.ok THEN Some(prev.program_id) ELSE None

prev_program_id(ai) ==
    LET idx == load_current_index_checked(ai) IN
    IF ~idx.ok THEN None
    ELSE IF idx.v = 0 THEN None
    ELSE LET prev == load_instruction_at_checked(idx.v - 1, ai) IN
         IF prev.ok THEN Some(prev.program_id) ELSE None

\* ------------------------------------------------------------ Exempt::any
any_LowBitOnly(e) == e.roles % 2 = 1

any(e) == e.roles # 0

\* --------------------------------------------------------------- handler
\* ctx carries the accounts of `Evaluate` plus the Clock sysvar the
\* handler reads with Clock::get().
handler_BuyBeforeSell(ctx, amount) ==
    LET c == prev_program_id(ctx.ix_sysvar)
        to_is_vault == ctx.to_token_account = ctx.pool_vault.token_account
        from_is_vault == ctx.from_token_account = ctx.pool_vault.token_account
    IN
    IF ctx.policy.paused /\ ~any(ctx.exempt_from) THEN Paused
    ELSE IF any(ctx.exempt_from) \/ any(ctx.exempt_to) THEN Allow
    ELSE IF ctx.clock.unix_timestamp < ctx.unlock.unlock_ts THEN
        IF from_is_vault THEN
            IF c # None /\ c[1] = ctx.allowed_program.program_id
            THEN Allow ELSE ProgramNotAllowed
        ELSE IF to_is_vault THEN SellsDisabled
        ELSE IF c = None THEN Allow
        ELSE ProgramNotAllowed
    ELSE Allow

handler_BuyUnchecked(ctx, amount) ==
    LET c == prev_program_id(ctx.ix_sysvar)
        to_is_vault == ctx.to_token_account = ctx.pool_vault.token_account
        from_is_vault == ctx.from_token_account = ctx.pool_vault.token_account
    IN
    IF ctx.policy.paused /\ ~any(ctx.exempt_from) THEN Paused
    ELSE IF any(ctx.exempt_from) \/ any(ctx.exempt_to) THEN Allow
    ELSE IF ctx.clock.unix_timestamp < ctx.unlock.unlock_ts THEN
        IF to_is_vault THEN SellsDisabled
        ELSE IF from_is_vault THEN Allow
        ELSE IF c = None THEN Allow
        ELSE ProgramNotAllowed
    ELSE Allow

handler_P2PViaCounterparty(ctx, amount) ==
    LET c == prev_program_id(ctx.ix_sysvar)
        to_is_vault == ctx.to_token_account = ctx.pool_vault.token_account
        from_is_vault == ctx.from_token_account = ctx.pool_vault.token_account
    IN
    IF ctx.policy.paused /\ ~any(ctx.exempt_from) THEN Paused
    ELSE IF any(ctx.exempt_from) \/ any(ctx.exempt_to) THEN Allow
    ELSE IF ctx.clock.unix_timestamp < ctx.unlock.unlock_ts THEN
        IF to_is_vault THEN SellsDisabled
        ELSE IF c # None /\ c[1] = ctx.allowed_program.program_id THEN Allow
        ELSE IF from_is_vault THEN ProgramNotAllowed
        ELSE IF c = None THEN Allow
        ELSE ProgramNotAllowed
    ELSE Allow

handler_PauseEitherExempt(ctx, amount) ==
    LET c == prev_program_id(ctx.ix_sysvar)
        to_is_vault == ctx.to_token_account = ctx.pool_vault.token_account
        from_is_vault == ctx.from_token_account = ctx.pool_vault.token_account
    IN
    IF ctx.policy.paused /\ ~(any(ctx.exempt_from) \/ any(ctx.exempt_to))
    THEN Paused
    ELSE IF any(ctx.exempt_from) \/ any(ctx.exempt_to) THEN Allow
    ELSE IF ctx.clock.unix_timestamp < ctx.unlock.unlock_ts THEN
        IF to_is_vault THEN SellsDisabled
        ELSE IF from_is_vault THEN
            IF c # None /\ c[1] = ctx.allowed_program.program_id
            THEN Allow ELSE ProgramNotAllowed
        ELSE IF c = None THEN Allow
        ELSE ProgramNotAllowed
    ELSE Allow

handler_ExemptFromOnly(ctx, amount) ==
    LET c == prev_program_id(ctx.ix_sysvar)
        to_is_vault == ctx.to_token_account = ctx.pool_vault.token_account
        from_is_vault == ctx.from_token_account = ctx.pool_vault.token_account
    IN
    IF ctx.policy.paused /\ ~any(ctx.exempt_from) THEN Paused
    ELSE IF any(ctx.exempt_from) THEN Allow
    ELSE IF ctx.clock.unix_timestamp < ctx.unlock.unlock_ts THEN
        IF to_is_vault THEN SellsDisabled
        ELSE IF from_is_vault THEN
            IF c # None /\ c[1] = ctx.allowed_program.program_id
            THEN Allow ELSE ProgramNotAllowed
        ELSE IF c = None THEN Allow
        ELSE ProgramNotAllowed
    ELSE Allow

handler_LockInclusive(ctx, amount) ==
    LET c == prev_program_id(ctx.ix_sysvar)
        to_is_vault == ctx.to_token_account = ctx.pool_vault.token_account
        from_is_vault == ctx.from_token_account = ctx.pool_vault.token_account
    IN
    IF ctx.policy.paused /\ ~any(ctx.exempt_from) THEN Paused
    ELSE IF any(ctx.exempt_from) \/ any(ctx.exempt_to) THEN Allow
    ELSE IF ctx.clock.unix_timestamp <= ctx.unlock.unlock_ts THEN
        IF to_is_vault THEN SellsDisabled
        ELSE IF from_is_vault THEN
            IF c # None /\ c[1] = ctx.allowed_program.program_id
            THEN Allow ELSE ProgramNotAllowed
        ELSE IF c = None THEN Allow
        ELSE ProgramNotAllowed
    ELSE Allow

handler(ctx, amount) ==
    LET c == prev_program_id(ctx.ix_sysvar)
        to_is_vault == ctx.to_token_account = ctx.pool_vault.token_account
        from_is_vault == ctx.from_token_account = ctx.pool_vault.token_account
    IN
    IF ctx.policy.paused /\ ~any(ctx.exempt_from) THEN Paused
    ELSE IF any(ctx.exempt_from) \/ any(ctx.exempt_to) THEN Allow
    ELSE IF ctx.clock.unix_timestamp < ctx.unlock.unlock_ts THEN
        IF to_is_vault THEN SellsDisabled
        ELSE IF from_is_vault THEN
            IF c # None /\ c[1] = ctx.allowed_program.program_id
            THEN Allow ELSE ProgramNotAllowed
        ELSE IF c = None THEN Allow
        ELSE ProgramNotAllowed
    ELSE Allow

\* ------------------------------------------------------------------ state
NoAccount == [is_sysvar |-> FALSE, current_index |-> 0, instructions |-> <<>>]

Context(from, to, ef, et, ix) ==
    [from_token_account |-> from,
     to_token_account   |-> to,
     policy             |-> policy,
     unlock             |-> unlock,
     exempt_from        |-> exempt[ef],
     exempt_to          |-> exempt[et],
     allowed_program    |-> allowed_program,
     pool_vault         |-> pool_vault,
     ix_sysvar          |-> ix,
     clock              |-> [unix_timestamp |-> clock]]

NoCall == [ctx |-> <<>>, amount |-> 0, caller |-> None, verdict |-> "none"]

Init ==
    /\ policy = [paused |-> FALSE]
    /\ unlock = [unlock_ts |-> 0]
    /\ exempt = [e \in ExemptAccounts |-> [roles |-> 0]]
    /\ allowed_program = [program_id |-> DefaultPubkey]
    /\ pool_vault = [token_account |-> DefaultPubkey]
    /\ clock = 0
    /\ pc = "idle"
    /\ call = NoCall
    /\ written = [paused |-> FALSE, unlock_ts |-> 0,
                  roles |-> [e \in ExemptAccounts |-> 0],
                  program_id |-> DefaultPubkey,
                  token_account |-> DefaultPubkey]
    /\ ix_ai = NoAccount
    /\ caller = None

\* ---------------------------------------------------------------- setters
set_policy ==
    /\ pc = "idle"
    /\ \E paused \in BOOLEAN :
        /\ policy' = [policy EXCEPT !.paused = paused]
        /\ written' = [written EXCEPT !.paused = paused]
    /\ UNCHANGED <<unlock, exempt, allowed_program, pool_vault,
                   clock, pc, call, ix_ai, caller>>

set_unlock ==
    /\ pc = "idle"
    /\ \E ts \in Times :
        /\ unlock' = [unlock EXCEPT !.unlock_ts = ts]
        /\ written' = [written EXCEPT !.unlock_ts = ts]
    /\ UNCHANGED <<policy, exempt, allowed_program, pool_vault,
                   clock, pc, call, ix_ai, caller>>

set_exempt ==
    /\ pc = "idle"
    /\ \E e \in ExemptAccounts, roles \in RoleMasks :
        /\ exempt' = [exempt EXCEPT ![e].roles = roles]
        /\ written' = [written EXCEPT !.roles[e] = roles]
    /\ UNCHANGED <<policy, unlock, allowed_program, pool_vault,
                   clock, pc, call, ix_ai, caller>>

set_allowed_program ==
    /\ pc = "idle"
    /\ \E program_id \in ProgramIds :
        /\ allowed_program' = [allowed_program EXCEPT !.program_id = program_id]
        /\ written' = [written EXCEPT !.program_id = program_id]
    /\ UNCHANGED <<policy, unlock, exempt, pool_vault,
                   clock, pc, call, ix_ai, caller>>

set_pool_vault ==
    /\ pc = "idle"
    /\ \E token_account \in TokenAccounts :
        /\ pool_vault' = [pool_vault EXCEPT !.token_account = token_account]
        /\ written' = [written EXCEPT !.token_account = token_account]
    /\ UNCHANGED <<policy, unlock, exempt, allowed_program,
                   clock, pc, call, ix_ai, caller>>

\* The cluster clock the handler reads; it only moves forward.
Tick ==
    /\ pc = "idle"
    /\ clock < MaxTime
    /\ clock' = clock + 1
    /\ UNCHANGED <<records, pc, call, written, ix_ai, caller>>

\* --------------------------------------------------------------- evaluate
transfer_hook_ClearsPause ==
    /\ pc = "idle"
    /\ \E from \in TokenAccounts, to \in TokenAccounts,
          ef \in ExemptAccounts, et \in ExemptAccounts,
          amount \in Amounts, ix \in SysvarAccounts :
        LET ctx == Context(from, to, ef, et, ix) IN
        call' = [ctx |-> ctx, amount |-> amount,
                 caller |-> prev_program_id(ix),
                 verdict |-> handler(ctx, amount)]
    /\ pc' = "evaluated"
    /\ policy' = [policy EXCEPT !.paused = FALSE]
    /\ UNCHANGED <<unlock, exempt, allowed_program, pool_vault,
                   clock, written, ix_ai, caller>>

transfer_hook ==
    /\ pc = "idle"
    /\ \E from \in TokenAccounts, to \in TokenAccounts,
          ef \in ExemptAccounts, et \in ExemptAccounts,
          amount \in Amounts, ix \in SysvarAccounts :
        LET ctx == Context(from, to, ef, et, ix) IN
        call' = [ctx |-> ctx, amount |-> amount,
                 caller |-> prev_program_id(ix),
                 verdict |-> handler(ctx, amount)]
    /\ pc' = "evaluated"
    /\ UNCHANGED <<records, clock, written, ix_ai, caller>>

\* The token program consumes the verdict: the transfer proceeds or the
\* transaction aborts; either way the invocation is over.
Settle ==
    /\ pc = "evaluated"
    /\ pc' = "idle"
    /\ call' = NoCall
    /\ UNCHANGED <<records, clock, written, ix_ai, caller>>

Next ==
    \/ set_policy
    \/ set_unlock
    \/ set_exempt
    \/ set_allowed_program
    \/ set_pool_vault
    \/ Tick
    \/ transfer_hook
    \/ Settle

Spec == Init /\ [][Next]_vars

\* ------------------------------------------ the resolver on its own inputs
Resolve ==
    /\ \E ai \in AnyAccounts :
        /\ ix_ai' = ai
        /\ caller' = prev_program_id(ai)
    /\ UNCHANGED <<records, clock, pc, call, written>>

NextResolver == Resolve

SpecResolver == Init /\ [][NextResolver]_vars

\* ================================================================ claims
\* The evaluation in flight, as the handler saw it.
Evaluated == pc = "evaluated"
CallPaused == call.ctx.policy.paused
FromExempt == call.ctx.exempt_from.roles # 0
ToExempt == call.ctx.exempt_to.roles # 0
Locked == call.ctx.clock.unix_timestamp < call.ctx.unlock.unlock_ts
ToIsVault == call.ctx.to_token_account = call.ctx.pool_vault.token_account
FromIsVault == call.ctx.from_token_account = call.ctx.pool_vault.token_account
AllowedCounterparty == call.ctx.allowed_program.program_id
LockWindow == Evaluated /\ ~CallPaused /\ ~FromExempt /\ ~ToExempt /\ Locked

\* C1: not paused, nobody exempt, now < unlock_ts and the destination is
\* the pool vault: the verdict is SellsDisabled, whoever the caller is and
\* also when the source is the pool vault too.
C1_SellBlockedWhileLocked ==
    (LockWindow /\ ToIsVault) => call.verdict = SellsDisabled

C1_Witness ==
    /\ LockWindow /\ ToIsVault /\ FromIsVault
    /\ call.caller = Some(AllowedCounterparty)
    /\ call.verdict = SellsDisabled

\* C2: not paused, nobody exempt, now < unlock_ts, source is the pool vault
\* and destination is not: Allow exactly when the resolved caller is
\* Some(allowed counterparty); otherwise ProgramNotAllowed.
C2_BuyNeedsCounterparty ==
    (LockWindow /\ FromIsVault /\ ~ToIsVault) =>
        /\ (call.verdict = Allow) <=> (call.caller = Some(AllowedCounterparty))
        /\ call.verdict \in {Allow, ProgramNotAllowed}

C2_Witness ==
    /\ LockWindow /\ FromIsVault /\ ~ToIsVault
    /\ call.caller = Some(Amm) /\ AllowedCounterparty = Amm
    /\ call.verdict = Allow

\* C3: not paused, nobody exempt, now < unlock_ts and neither endpoint is
\* the pool vault: Allow when the resolved caller is None, and
\* ProgramNotAllowed for every Some(x), the allowed counterparty included.
C3_P2PNeedsNoCaller ==
    (LockWindow /\ ~FromIsVault /\ ~ToIsVault) =>
        IF call.caller = None THEN call.verdict = Allow
                              ELSE call.verdict = ProgramNotAllowed

C3_Witness ==
    /\ LockWindow /\ ~FromIsVault /\ ~ToIsVault
    /\ call.caller = Some(AllowedCounterparty)
    /\ call.verdict = ProgramNotAllowed

C6_FullUnlock ==
    (Evaluated /\ ~CallPaused /\ ~FromExempt /\ ~ToExempt /\ ~Locked) =>
        call.verdict = Allow

C6_Witness ==
    /\ Evaluated /\ ~CallPaused /\ ~FromExempt /\ ~ToExempt
    /\ call.ctx.clock.unix_timestamp = call.ctx.unlock.unlock_ts
    /\ call.ctx.unlock.unlock_ts > 0
    /\ ToIsVault /\ call.caller # None /\ call.caller # Some(AllowedCounterparty)
    /\ call.verdict = Allow

\* C7: the resolver returns None at current index 0, Some(program of the
\* instruction at index k-1) at index k > 0 when that instruction can be
\* loaded, and None (never an error) when the index or the predecessor
\* cannot be loaded.
C7_ResolverBoundary ==
    LET k == ix_ai.current_index
        n == Len(ix_ai.instructions)
    IN
    /\ (ix_ai.is_sysvar /\ k = 0) => caller = None
    /\ (ix_ai.is_sysvar /\ k > 0 /\ k - 1 < n) =>
            caller = Some(ix_ai.instructions[k])
    /\ (~ix_ai.is_sysvar \/ (k > 0 /\ k - 1 >= n)) => caller = None
    /\ caller \in {None} \cup {Some(p) : p \in ProgramIds}

C7_Witness ==
    /\ ix_ai.is_sysvar /\ ix_ai.current_index = 1
    /\ ix_ai.instructions = <<Amm, Token2022>>
    /\ caller = Some(Amm)

\* C8: in the lock window, with neither endpoint the pool vault, a transfer
\* the wallet issues itself (the running top-level instruction is the token
\* program's, no other program drives it) is allowed wherever that
\* instruction stands in the transaction.
DirectTransfer ==
    call.ctx.ix_sysvar.instructions[call.ctx.ix_sysvar.current_index + 1] = Token2022

C8_DirectTransferAllowed ==
    (LockWindow /\ ~FromIsVault /\ ~ToIsVault /\ DirectTransfer) =>
        call.verdict = Allow

\* C9: an evaluation, whatever its verdict, leaves the five records as it
\* found them, so each record holds the value its setter wrote last.
C9_EvaluateWritesNothing ==
    /\ policy.paused = written.paused
    /\ unlock.unlock_ts = written.unlock_ts
    /\ \A e \in ExemptAccounts : exempt[e].roles = written.roles[e]
    /\ allowed_program.program_id = written.program_id
    /\ pool_vault.token_account = written.token_account
    /\ Evaluated =>
        /\ call.ctx.policy = policy
        /\ call.ctx.unlock = unlock
        /\ call.ctx.exempt_from \in {exempt[e] : e \in ExemptAccounts}
        /\ call.ctx.exempt_to \in {exempt[e] : e \in ExemptAccounts}
        /\ call.ctx.allowed_program = allowed_program
        /\ call.ctx.pool_vault = pool_vault

C9_Witness ==
    /\ Evaluated /\ call.verdict = Paused
    /\ policy.paused /\ unlock.unlock_ts = 1
    /\ exempt["exemptB"].roles = 128
    /\ allowed_program.program_id = Amm
    /\ pool_vault.token_account = "vault"

\* C10: the verdict depends only on: paused, whether each mask is zero,
\* whether now < unlock_ts, whether each endpoint is the pool vault, the
\* allowed counterparty, and the program of the instruction at
\* current_index - 1 (or its absence).  Every call is compared with the
\* canonical call of its class (amount 0, masks 0 or 1, clock 0, vault
\* "vault", a log holding just the predecessor and the token program); two
\* calls of one class then agree with each other through it.
Predecessor(ix) ==
    IF ix.current_index > 0 THEN Some(ix.instructions[ix.current_index])
                            ELSE None

Canonical(c) ==
    [from_token_account |-> IF c.from_token_account = c.pool_vault.token_account
                            THEN "vault" ELSE "userA",
     to_token_account   |-> IF c.to_token_account = c.pool_vault.token_account
                            THEN "vault" ELSE "userA",
     policy             |-> [paused |-> c.policy.paused],
     unlock             |-> [unlock_ts |->
                                IF c.clock.unix_timestamp < c.unlock.unlock_ts
                                THEN 1 ELSE 0],
     exempt_from        |-> [roles |-> IF c.exempt_from.roles # 0 THEN 1 ELSE 0],
     exempt_to          |-> [roles |-> IF c.exempt_to.roles # 0 THEN 1 ELSE 0],
     allowed_program    |-> [program_id |-> c.allowed_program.program_id],
     pool_vault         |-> [token_account |-> "vault"],
     ix_sysvar          |-> IF Predecessor(c.ix_sysvar) = None
                            THEN [is_sysvar |-> TRUE, current_index |-> 0,
                                  instructions |-> <<Token2022>>]
                            ELSE [is_sysvar |-> TRUE, current_index |-> 1,
                                  instructions |->
                                    Predecessor(c.ix_sysvar) \o <<Token2022>>],
     clock              |-> [unix_timestamp |-> 0]]

C10_VerdictNonInterference ==
    Evaluated => call.verdict = handler(Canonical(call.ctx), 0)

C10_Witness ==
    /\ Evaluated /\ call.amount = 1
    /\ call.ctx.exempt_to.roles = 128 /\ ~FromExempt /\ ~CallPaused
    /\ call.ctx.pool_vault.token_account = "userB"
    /\ call.ctx.clock.unix_timestamp = 1
    /\ call.ctx.ix_sysvar.current_index = 1
    /\ call.ctx.ix_sysvar.instructions = <<DefaultPubkey, Amm>>
    /\ call.ctx # Canonical(call.ctx)
    /\ call.verdict = Allow

====
